---- MODULE Spec2Model ----
(***************************************************************************)
(* A model of the Saiborg chat assistant: the app_mention handler of       *)
(* app.py (intent routing, CRM lookup, RAG answer, reply posting) and the  *)
(* Monday.com client of monday_client.py.  Texts are TLA+ strings, read    *)
(* character by character as the Python code reads them.                   *)
(***************************************************************************)
EXTENDS Integers, Sequences, FiniteSets, TLC

(***************************************************************************)
(* Python string primitives                                                *)
(***************************************************************************)

\* s[i] for a 1-based i, "" outside the string
CharAt(s, i) == IF i >= 1 /\ i <= Len(s) THEN SubSeq(s, i, i) ELSE ""

\* s[i:] for a 0-based i
StrFrom(s, i) == SubSeq(s, i + 1, Len(s))

\* s[:i] for a 0-based i
StrTo(s, i) == SubSeq(s, 1, i)

\* s.startswith(p, i) for a 0-based i
StartsAt(s, p, i) == i + Len(p) <= Len(s) /\ SubSeq(s, i + 1, i + Len(p)) = p

\* p in s
Contains(s, p) == \E i \in 0..(Len(s) - Len(p)) : StartsAt(s, p, i)

\* s.find(p): the 0-based index of the first occurrence, -1 when there is none
Find(s, p) ==
    LET found == {i \in 0..(Len(s) - Len(p)) : StartsAt(s, p, i)}
    IN  IF found = {} THEN -1
        ELSE CHOOSE i \in found : \A j \in found : i <= j

UpperChars == {"A","B","C","D","E","F","G","H","I","J","K","L","M","N","O","P",
               "Q","R","S","T","U","V","W","X","Y","Z","Æ","Ø","Å"}

AsciiUpper == UpperChars \ {"Æ","Ø","Å"}

AsciiLower == {"a","b","c","d","e","f","g","h","i","j","k","l","m","n","o","p",
               "q","r","s","t","u","v","w","x","y","z"}

Digits == {"0","1","2","3","4","5","6","7","8","9"}

\* str.lower() of one character
LowerChar(c) ==
    IF c \notin UpperChars THEN c ELSE
    CASE c = "A" -> "a" [] c = "B" -> "b" [] c = "C" -> "c" [] c = "D" -> "d"
      [] c = "E" -> "e" [] c = "F" -> "f" [] c = "G" -> "g" [] c = "H" -> "h"
      [] c = "I" -> "i" [] c = "J" -> "j" [] c = "K" -> "k" [] c = "L" -> "l"
      [] c = "M" -> "m" [] c = "N" -> "n" [] c = "O" -> "o" [] c = "P" -> "p"
      [] c = "Q" -> "q" [] c = "R" -> "r" [] c = "S" -> "s" [] c = "T" -> "t"
      [] c = "U" -> "u" [] c = "V" -> "v" [] c = "W" -> "w" [] c = "X" -> "x"
      [] c = "Y" -> "y" [] c = "Z" -> "z" [] c = "Æ" -> "æ" [] c = "Ø" -> "ø"
      [] c = "Å" -> "å" [] OTHER -> c

RECURSIVE Lower(_)
\* str.lower()
Lower(s) ==
    LET upper == {i \in 1..Len(s) : SubSeq(s, i, i) \in UpperChars}
    IN  IF upper = {} THEN s
        ELSE LET i == CHOOSE k \in upper : \A j \in upper : k <= j
             IN  SubSeq(s, 1, i - 1) \o LowerChar(SubSeq(s, i, i)) \o Lower(StrFrom(s, i))

\* the characters str.strip() and the regex class \s remove or match
Whitespace == {" ", "\t", "\n"}

RECURSIVE LStripSet(_, _)
\* s.lstrip(chars)
LStripSet(s, chars) ==
    IF s # "" /\ Head(s) \in chars THEN LStripSet(Tail(s), chars) ELSE s

RECURSIVE RStripSet(_, _)
\* s.rstrip(chars)
RStripSet(s, chars) ==
    IF s # "" /\ CharAt(s, Len(s)) \in chars
    THEN RStripSet(SubSeq(s, 1, Len(s) - 1), chars)
    ELSE s

\* s.strip(chars)
StripSet(s, chars) == RStripSet(LStripSet(s, chars), chars)

\* s.strip()
Strip(s) == StripSet(s, Whitespace)

\* the number of whitespace characters of s from 0-based index i on
RECURSIVE WsRun(_, _)
WsRun(s, i) == IF CharAt(s, i + 1) \in Whitespace THEN 1 + WsRun(s, i + 1) ELSE 0

RECURSIVE SplitFrom(_, _)
\* s.split() of the part of s from 0-based index i on
SplitFrom(s, i) ==
    LET a == i + WsRun(s, i)
        e == CHOOSE k \in a..Len(s) :
                /\ \A j \in (a + 1)..k : CharAt(s, j) \notin Whitespace
                /\ (k = Len(s) \/ CharAt(s, k + 1) \in Whitespace)
    IN  IF a >= Len(s) THEN <<>>
        ELSE <<SubSeq(s, a + 1, e)>> \o SplitFrom(s, e)

\* s.split()
Split(s) == SplitFrom(s, 0)

RECURSIVE JoinWith(_, _)
\* sep.join(parts)
JoinWith(parts, sep) ==
    IF parts = <<>> THEN ""
    ELSE IF Len(parts) = 1 THEN parts[1]
    ELSE parts[1] \o sep \o JoinWith(Tail(parts), sep)

(***************************************************************************)
(* app.py: extract_customer_name                                           *)
(***************************************************************************)

\* the regex class [A-Za-z0-9ÆØÅæøå]
NameStartChars == AsciiUpper \cup AsciiLower \cup Digits \cup {"Æ","Ø","Å","æ","ø","å"}

\* the regex class [A-Za-z0-9ÆØÅæøå_-]
NameTokenChars == NameStartChars \cup {"_", "-"}

\* the regex class [A-Za-z0-9ÆØÅæøå ._-]
NameLooseChars == NameStartChars \cup {" ", ".", "_", "-"}

\* the regex class \w, over the characters of the model's texts
WordChars == NameStartChars \cup {"_"}

\* the characters of the final name.strip(" ?!.:,;")
TrailingPunctuation == {" ", "?", "!", ".", ":", ",", ";"}

\* U+2013 and U+2014, which a string of this module cannot hold: two symbols
\* that, like them, are neither whitespace nor alphanumeric nor word characters
EnDash == "¬"

EmDash == "¦"

\* the characters of t.lstrip("-\u2013\u2014 ")
LeadingDashes == {"-", EnDash, EmDash, " "}

RECURSIVE RunLen(_, _, _)
\* the number of characters of s from 0-based index i on that are in class
RunLen(s, i, class) ==
    IF CharAt(s, i + 1) \in class THEN 1 + RunLen(s, i + 1, class) ELSE 0

\* the least of a set of indices, -1 when the set is empty: where re.search,
\* scanning from the left, first finds a match
Leftmost(indices) ==
    IF indices = {} THEN -1
    ELSE CHOOSE i \in indices : \A j \in indices : i <= j

\* where the name starts after "kunde[n]?\s+" matched at 0-based i, -1 if it does not
KundePrefixEnd(t, lower, i) ==
    LET n == IF CharAt(lower, i + 6) = "n" THEN 1 ELSE 0
        w == WsRun(t, i + 5 + n)
    IN  IF StartsAt(lower, "kunde", i) /\ w >= 1 THEN i + 5 + n + w ELSE -1

\* (?:i\s+monday|og|hvor|som|der) matches at 0-based j (IGNORECASE)
ConnectorAt(lower, j) ==
    \/ /\ CharAt(lower, j + 1) = "i"
       /\ WsRun(lower, j + 1) >= 1
       /\ StartsAt(lower, "monday", j + 1 + WsRun(lower, j + 1))
    \/ StartsAt(lower, "og", j)
    \/ StartsAt(lower, "hvor", j)
    \/ StartsAt(lower, "som", j)
    \/ StartsAt(lower, "der", j)

RECURSIVE LazyNameEnd(_, _, _)
\* the lazy group (?:\s+TOKEN)*? followed by \s+CONNECTOR, from the end q of a
\* token: the end of the captured name, -1 when the pattern fails
LazyNameEnd(t, lower, q) ==
    LET w == WsRun(t, q)
        p == q + w
    IN  IF w >= 1 /\ ConnectorAt(lower, p) THEN q
        ELSE IF w >= 1 /\ CharAt(t, p + 1) \in NameStartChars
        THEN LazyNameEnd(t, lower, p + 1 + RunLen(t, p + 1, NameTokenChars))
        ELSE -1

\* the span <<start, end>> of group 1 of the connector pattern at 0-based i
KundeConnectorSpan(t, lower, i) ==
    LET p == KundePrefixEnd(t, lower, i)
    IN  IF p >= 0 /\ CharAt(t, p + 1) \in NameStartChars
        THEN <<p, LazyNameEnd(t, lower, p + 1 + RunLen(t, p + 1, NameTokenChars))>>
        ELSE <<-1, -1>>

\* re.search of the pattern of lines 124-128: group 1, or "" with found = FALSE
KundeConnectorMatch(t) ==
    LET lower == Lower(t)
        i == Leftmost({k \in 0..(Len(t) - 1) : KundeConnectorSpan(t, lower, k)[2] >= 0})
        span == KundeConnectorSpan(t, lower, i)
    IN  IF i >= 0 THEN [found |-> TRUE, name |-> SubSeq(t, span[1] + 1, span[2])]
        ELSE [found |-> FALSE, name |-> ""]

\* the span <<start, end>> of group 1 of the loose pattern at 0-based i
KundeLooseSpan(t, lower, i) ==
    LET p == KundePrefixEnd(t, lower, i)
        r == RunLen(t, p + 1, NameLooseChars)
    IN  IF p >= 0 /\ CharAt(t, p + 1) \in NameStartChars /\ r >= 1
        THEN <<p, p + 1 + r>>
        ELSE <<-1, -1>>

\* re.search of the pattern of lines 134-138
KundeLooseMatch(t) ==
    LET lower == Lower(t)
        i == Leftmost({k \in 0..(Len(t) - 1) : KundeLooseSpan(t, lower, k)[2] >= 0})
        span == KundeLooseSpan(t, lower, i)
    IN  IF i >= 0 THEN [found |-> TRUE, name |-> SubSeq(t, span[1] + 1, span[2])]
        ELSE [found |-> FALSE, name |-> ""]

RECURSIVE TruncateAtFirstStopWord(_, _)
\* lines 142-146: cut the name at the first stop word of the list that occurs
TruncateAtFirstStopWord(name, stop_words) ==
    IF stop_words = <<>> THEN name
    ELSE LET stop_idx == Find(Lower(name), Head(stop_words))
         IN  IF stop_idx # -1 THEN Strip(StrTo(name, stop_idx))
             ELSE TruncateAtFirstStopWord(name, Tail(stop_words))

\* name.split(stop_word)[0]
BeforeFirst(name, sep) ==
    IF Find(name, sep) = -1 THEN name ELSE StrTo(name, Find(name, sep))

RECURSIVE SplitAtStopWords(_, _)
\* lines 155-157: for each stop word that occurs, keep what precedes it
SplitAtStopWords(name, stop_words) ==
    IF stop_words = <<>> THEN name
    ELSE SplitAtStopWords(
            IF Contains(Lower(name), Head(stop_words))
            THEN BeforeFirst(name, Head(stop_words)) ELSE name,
            Tail(stop_words))

\* the span <<start, end>> of group 1 of find\s+([A-Z][...]+) at 0-based i
FindSpan(t, lower, i) ==
    LET w == WsRun(t, i + 4)
        p == i + 4 + w
        r == RunLen(t, p + 1, NameStartChars)
    IN  IF /\ StartsAt(lower, "find", i) /\ w >= 1
           /\ CharAt(lower, p + 1) \in AsciiLower /\ r >= 1
        THEN <<p, p + 1 + r>>
        ELSE <<-1, -1>>

\* re.search of the pattern of line 151 (IGNORECASE: [A-Z] takes a-z too)
FindMatch(t) ==
    LET lower == Lower(t)
        i == Leftmost({k \in 0..(Len(t) - 1) : FindSpan(t, lower, k)[2] >= 0})
        span == FindSpan(t, lower, i)
    IN  IF i >= 0 THEN [found |-> TRUE, name |-> SubSeq(t, span[1] + 1, span[2])]
        ELSE [found |-> FALSE, name |-> ""]

Connectors == <<" i monday", " og ", " hvor ", " som ", " der ">>

\* lines 163-167: the least index of a connector in lower, Len(t) when none occurs
EarliestConnector(t, lower) ==
    LET hits == {Find(lower, Connectors[k]) : k \in 1..Len(Connectors)} \ {-1}
    IN  IF hits = {} THEN Len(t)
        ELSE CHOOSE i \in hits : \A j \in hits : i <= j

\* re.sub(r"^find\s+", "", before, flags=re.IGNORECASE)
StripLeadingFind(before) ==
    IF StartsAt(Lower(before), "find", 0) /\ WsRun(before, 4) >= 1
    THEN StrFrom(before, 4 + WsRun(before, 4))
    ELSE before

\* [p for p in parts if p and p[0].isupper()]
CapitalizedParts(parts) == SelectSeq(parts, LAMBDA p : p # "" /\ Head(p) \in UpperChars)

\* lines 170-184: the name taken from the text before the earliest connector
BeforeConnectorName(t, earliest_idx) ==
    LET before == StripLeadingFind(Strip(StrTo(t, earliest_idx)))
        parts == Split(before)
    IN  IF parts # <<>>
        THEN IF CapitalizedParts(parts) # <<>>
             THEN JoinWith(CapitalizedParts(parts), " ")
             ELSE parts[Len(parts)]
        ELSE before

\* the span <<start, end>> of \b([A-Z][A-Za-z0-9ÆØÅæøå]+)\b at 0-based i
CapitalizedSpan(t, i) ==
    LET r == RunLen(t, i + 1, NameStartChars)
        e == i + 1 + r
    IN  IF /\ CharAt(t, i + 1) \in AsciiUpper
           /\ CharAt(t, i) \notin WordChars
           /\ r >= 1
           /\ CharAt(t, e + 1) \notin WordChars
        THEN <<i, e>>
        ELSE <<-1, -1>>

\* re.search of the pattern of line 187
CapitalizedMatch(t) ==
    LET i == Leftmost({k \in 0..(Len(t) - 1) : CapitalizedSpan(t, k)[2] >= 0})
        span == CapitalizedSpan(t, i)
    IN  IF i >= 0 THEN [found |-> TRUE, name |-> SubSeq(t, span[1] + 1, span[2])]
        ELSE [found |-> FALSE, name |-> ""]

\* lines 192-195: the tokens that are long enough and start alphanumeric
MeaningfulParts(t) ==
    SelectSeq(Split(t), LAMBDA part : Len(part) > 2 /\ Head(part) \in NameStartChars)

\* extract_customer_name(text)
extract_customer_name(text) ==
    LET t == Strip(LStripSet(Strip(text), LeadingDashes))
        lower == Lower(t)
        earliest_idx == EarliestConnector(t, lower)
    IN  IF KundeConnectorMatch(t).found
        THEN StripSet(KundeConnectorMatch(t).name, TrailingPunctuation)
        ELSE IF KundeLooseMatch(t).found
        THEN StripSet(TruncateAtFirstStopWord(KundeLooseMatch(t).name,
                        <<" i monday", " i ", " og ", " hvor ", " som ", " der ">>),
                      TrailingPunctuation)
        ELSE IF FindMatch(t).found
        THEN StripSet(SplitAtStopWords(FindMatch(t).name,
                        <<" i ", " og ", " hvor ", " som ", " der ">>),
                      TrailingPunctuation)
        ELSE IF earliest_idx < Len(t)
        THEN StripSet(BeforeConnectorName(t, earliest_idx), TrailingPunctuation)
        ELSE IF CapitalizedMatch(t).found
        THEN StripSet(CapitalizedMatch(t).name, TrailingPunctuation)
        ELSE IF MeaningfulParts(t) # <<>>
        THEN StripSet(MeaningfulParts(t)[1], TrailingPunctuation)
        ELSE StripSet(t, TrailingPunctuation)

(***************************************************************************)
(* monday_client.py                                                        *)
(***************************************************************************)

\* Python's None where a text is expected (a column's text may be null)
None == "<None>"

\* (x or "")
OrEmpty(x) == IF x = None THEN "" ELSE x

\* what the remote API can answer to one requests.post: a failure kind, or a
\* payload data["data"] (null, or an object with "me" or "boards")
NoMe == [name |-> None, email |-> None]

NullData == [null |-> TRUE, has_me |-> FALSE, me |-> NoMe, boards |-> <<>>]

\* {"me": null}
MeNullData == [null |-> FALSE, has_me |-> FALSE, me |-> NoMe, boards |-> <<>>]

MeData(me) == [null |-> FALSE, has_me |-> TRUE, me |-> me, boards |-> <<>>]

BoardsData(boards) == [null |-> FALSE, has_me |-> FALSE, me |-> NoMe, boards |-> boards]

\* a board of the payload: its items_page is null, or holds items
Board(items) == [items_page |-> [null |-> FALSE, items |-> items]]

BoardWithoutPage == [items_page |-> [null |-> TRUE, items |-> <<>>]]

RemoteOk(data) == [kind |-> "ok", data |-> data]

RemoteFailure(kind) == [kind |-> kind, data |-> NullData]

\* requests.Timeout, resp.raise_for_status(), and "errors" in data
RemoteFailureKinds == {"timeout", "http_error", "api_errors"}

\* str(e) of the exception each failure raises
RemoteErrorText(kind) ==
    CASE kind = "timeout" -> "Read timed out."
      [] kind = "http_error" -> "401 Client Error: Unauthorized"
      [] OTHER -> "Monday API error: [{'message': 'Not Authenticated'}]"

MissingKeyError == "MONDAY_API_KEY is missing in .env"

\* a function's outcome: it returned value, or raised exc; calls lists every
\* function and remote call made on the way, in order
Returned(value, calls) == [raised |-> FALSE, exc |-> "", value |-> value, calls |-> calls]

Raised(exc, calls) == [raised |-> TRUE, exc |-> exc, value |-> <<>>, calls |-> calls]

\* _call_monday(query) with the API key present or not, the remote answering remote
call_monday(api_key, remote) ==
    IF ~api_key THEN Raised(MissingKeyError, <<"_call_monday">>)
    ELSE IF remote.kind \in RemoteFailureKinds
    THEN Raised(RemoteErrorText(remote.kind), <<"_call_monday", "requests.post">>)
    ELSE Returned(remote.data, <<"_call_monday", "requests.post">>)

\* get_all_items answering a failed call with an empty list
get_all_items_swallowing(api_key, remote) ==
    LET r == call_monday(api_key, remote)
        calls == <<"get_all_items">> \o r.calls
        boards == IF r.value.null THEN <<>> ELSE r.value.boards
    IN  IF r.raised THEN Returned(<<>>, calls)
        ELSE IF boards = <<>> THEN Returned(<<>>, calls)
        ELSE IF boards[1].items_page.null THEN Returned(<<>>, calls)
        ELSE Returned(boards[1].items_page.items, calls)

\* get_all_items(board_id)
get_all_items(api_key, remote) ==
    LET r == call_monday(api_key, remote)
        calls == <<"get_all_items">> \o r.calls
        boards == IF r.value.null THEN <<>> ELSE r.value.boards
    IN  IF r.raised THEN Raised(r.exc, calls)
        ELSE IF boards = <<>> THEN Returned(<<>>, calls)
        ELSE IF boards[1].items_page.null THEN Returned(<<>>, calls)
        ELSE Returned(boards[1].items_page.items, calls)

RECURSIVE ColumnLoop(_, _, _)
\* lines 146-150: append the item at the first column whose text holds term,
\* then break
ColumnLoop(item, cols, term) ==
    IF cols = <<>> THEN <<>>
    ELSE IF Contains(Lower(OrEmpty(Head(cols).text)), term) THEN <<item>>
    ELSE ColumnLoop(item, Tail(cols), term)

\* AppendIfMatching without the continue of line 143
AppendIfMatchingNoContinue(item, term) ==
    (IF Contains(Lower(OrEmpty(item.name)), term) THEN <<item>> ELSE <<>>)
        \o ColumnLoop(item, item.column_values, term)

\* lines 137-150: what one pass of the loop body appends to results
AppendIfMatching(item, term) ==
    IF Contains(Lower(OrEmpty(item.name)), term) THEN <<item>>
    ELSE ColumnLoop(item, item.column_values, term)

RECURSIVE FilterItems(_, _)
\* lines 134-150: the loop over the fetched items
FilterItems(fetched, term) ==
    IF fetched = <<>> THEN <<>>
    ELSE AppendIfMatching(Head(fetched), term) \o FilterItems(Tail(fetched), term)

\* search_items_by_text without the except clause of lines 154-156
search_items_by_text_reraising(api_key, text, remote) ==
    LET term == Lower(Strip(OrEmpty(text)))
        r == get_all_items(api_key, remote)
        calls == <<"search_items_by_text">> \o r.calls
    IN  IF term = "" THEN Returned(<<>>, <<"search_items_by_text">>)
        ELSE IF r.raised THEN Raised(r.exc, calls)
        ELSE Returned(FilterItems(r.value, term), calls)

\* search_items_by_text(board_id, text)
search_items_by_text(api_key, text, remote) ==
    LET term == Lower(Strip(OrEmpty(text)))
        r == get_all_items(api_key, remote)
        calls == <<"search_items_by_text">> \o r.calls
    IN  IF term = "" THEN Returned(<<>>, <<"search_items_by_text">>)
        ELSE IF r.raised THEN Returned(<<>>, calls)
        ELSE Returned(FilterItems(r.value, term), calls)

(***************************************************************************)
(* app.py: helpers and answer composers                                    *)
(***************************************************************************)

BOT_USER_ID == "U1"

\* the text of a mention of the bot, the pattern of strip_bot_mention
Mention == "<@" \o BOT_USER_ID \o ">"

RECURSIVE RemoveAll(_, _)
\* re.sub(pattern, "", text) for a literal pattern
RemoveAll(text, pattern) ==
    LET i == Find(text, pattern)
    IN  IF i = -1 THEN text
        ELSE StrTo(text, i) \o RemoveAll(StrFrom(text, i + Len(pattern)), pattern)

\* strip_bot_mention(text)
strip_bot_mention(text) == Strip(RemoveAll(text, Mention))

overview_phrases == {"alle kunder", "alle leads", "hvilke leads har vi",
                     "hvilke kunder har vi", "overblik over vores leads",
                     "overblik over kunder"}

email_phrases == {"skriv en mail", "skriv en e-mail", "skriv email", "skriv en email",
                  "formuler en mail", "lav en mail", "follow up mail", "opfølgningsmail"}

meeting_phrases == {"forbered møde", "forberedelse til møde", "mødeforberedelse",
                    "prepare meeting", "prepare for meeting", "salgsmøde", "kundemøde"}

next_step_phrases == {"næste skridt", "next steps", "hvad gør vi nu",
                      "hvad er næste skridt", "hvad bør jeg gøre nu"}

\* any(phrase in lower for phrase in phrases)
AnyPhrase(lower, phrases) == \E phrase \in phrases : Contains(lower, phrase)

\* Route with the CRM keywords tested before the health-check phrase
RouteCrmFirst(lower) ==
    IF Contains(lower, "monday") \/ Contains(lower, "crm") THEN "crm"
    ELSE IF Contains(lower, "monday test") THEN "health"
    ELSE "qa"

\* lines 392, 405, 455: the branch of the if / elif / else
Route(lower) ==
    IF Contains(lower, "monday test") THEN "health"
    ELSE IF Contains(lower, "monday") \/ Contains(lower, "crm") THEN "crm"
    ELSE "qa"

\* FetchStrategy giving way to a customer-name wording in the text
FetchStrategyNameFirst(lower) ==
    IF Contains(lower, "kunden ") THEN "SearchByName"
    ELSE IF AnyPhrase(lower, overview_phrases) THEN "AllRecords" ELSE "SearchByName"

\* line 432: the fetch strategy of a CRM lookup
FetchStrategy(lower) ==
    IF AnyPhrase(lower, overview_phrases) THEN "AllRecords" ELSE "SearchByName"

\* DecideMode with the meeting phrases tested before the email phrases
DecideModeMeetingFirst(lower) ==
    IF AnyPhrase(lower, meeting_phrases) THEN "meeting_prep"
    ELSE IF AnyPhrase(lower, email_phrases) THEN "email_followup"
    ELSE IF AnyPhrase(lower, next_step_phrases) THEN "next_steps"
    ELSE "summary"

\* lines 410, 441-446: the output mode of a CRM lookup
DecideMode(lower) ==
    IF AnyPhrase(lower, email_phrases) THEN "email_followup"
    ELSE IF AnyPhrase(lower, meeting_phrases) THEN "meeting_prep"
    ELSE IF AnyPhrase(lower, next_step_phrases) THEN "next_steps"
    ELSE "summary"

\* the replies the handler words itself.  They are values of the state, which
\* TLC keeps as 7-bit text: the letters ae, oe, aa are written out and the
\* symbols are written as :name:
THINKING == ":thinking: Saiborg er i gang med at taenke..."

NO_KEY_HEALTH == "Jeg har ikke nogen Monday API-noegle konfigureret."

NO_KEY_CRM == "Jeg har ikke nogen Monday API-noegle konfigureret, saa jeg kan ikke laese CRM-data endnu."

HealthOk(me) == ":ok: Monday-forbindelse virker! Du er logget ind som: "
                    \o me.name \o " (" \o me.email \o ")"

HEALTH_NO_USER == ":x: Jeg kunne ikke laese brugerinfo fra Monday - tjek API-noeglen."

NO_MATCH == "Jeg kunne ikke finde nogen kunder/leads i Monday, der matcher din forespoergsel."

RAG_APOLOGY == "Beklager, jeg kunne ikke generere et svar lige nu. Proev igen senere."

MONDAY_APOLOGY == "Beklager, jeg kunne ikke formatere Monday-resultaterne lige nu."

FailureNotice(e) == ":x: Der skete en fejl: " \o e

\* str(e) of the error llm.invoke raises
LlmError == "429 Resource has been exhausted"

\* response.content: the language model is a function of its prompt
LlmContent(prompt) == "<" \o prompt.template \o " answer>"

NoPrompt == [template |-> "", user_text |-> "", context |-> "", data |-> <<>>]

\* lines 270-277: one entry of structured; columns maps each column id to the
\* text of the last column value with that id
StructuredEntry(item) ==
    LET cols == item.column_values
        ids == {cols[k].id : k \in 1..Len(cols)}
        last(i) == CHOOSE k \in 1..Len(cols) :
                      cols[k].id = i /\ \A j \in (k + 1)..Len(cols) : cols[j].id # i
    IN  [name |-> item.name, id |-> item.id,
         columns |-> [i \in ids |-> cols[last(i)].text]]

\* lines 266-278
Structured(items) == [k \in 1..Len(items) |-> StructuredEntry(items[k])]

\* lines 280-360: the prompt template the mode selects
TemplateOf(mode) ==
    IF mode = "email_followup" THEN "email_followup"
    ELSE IF mode = "meeting_prep" THEN "meeting_prep"
    ELSE IF mode = "next_steps" THEN "next_steps"
    ELSE "summary"

\* build_monday_answer(user_text, items, mode), the model answering or raising
build_monday_answer(text, its, mode_arg, llm_ok) ==
    LET crm_prompt == [template |-> TemplateOf(mode_arg), user_text |-> text,
                       context |-> "", data |-> Structured(its)]
    IN  [raised |-> FALSE, exc |-> "", prompt |-> crm_prompt,
         calls |-> <<"build_monday_answer", "llm.invoke">>,
         value |-> IF llm_ok THEN LlmContent(crm_prompt) ELSE MONDAY_APOLOGY]

\* search_kwargs={"k": 5} of line 97 and the slices docs[:5] of lines 210, 214
TOP_K == 5

\* the retriever's outcomes: it raises, or returns docs (their page_content)
RetrieverRaises == [raised |-> TRUE, docs |-> <<>>]

RetrieverReturns(docs) == [raised |-> FALSE, docs |-> docs]

\* build_rag_answer with llm.invoke outside the try of lines 249-254
build_rag_answer_unguarded(text, loaded, retrieval, llm_ok) ==
    LET context_parts ==
            IF ~loaded \/ retrieval.raised THEN <<>>
            ELSE SubSeq(retrieval.docs, 1, IF Len(retrieval.docs) < TOP_K
                                           THEN Len(retrieval.docs) ELSE TOP_K)
        rag_prompt == [template |-> "rag", user_text |-> text,
                       context |-> JoinWith(context_parts, "\n\n---\n\n"),
                       data |-> <<>>]
    IN  [raised |-> ~llm_ok, exc |-> IF llm_ok THEN "" ELSE LlmError,
         prompt |-> rag_prompt,
         calls |-> <<"build_rag_answer">>
                    \o (IF loaded THEN <<"retriever.invoke">> ELSE <<>>)
                    \o <<"llm.invoke">>,
         value |-> IF llm_ok THEN LlmContent(rag_prompt) ELSE ""]

\* build_rag_answer without the slice docs[:5] of line 214
build_rag_answer_uncapped(text, loaded, retrieval, llm_ok) ==
    LET context_parts ==
            IF ~loaded \/ retrieval.raised THEN <<>> ELSE retrieval.docs
        rag_prompt == [template |-> "rag", user_text |-> text,
                       context |-> JoinWith(context_parts, "\n\n---\n\n"),
                       data |-> <<>>]
    IN  [raised |-> FALSE, exc |-> "", prompt |-> rag_prompt,
         calls |-> <<"build_rag_answer">>
                    \o (IF loaded THEN <<"retriever.invoke">> ELSE <<>>)
                    \o <<"llm.invoke">>,
         value |-> IF llm_ok THEN LlmContent(rag_prompt) ELSE RAG_APOLOGY]

\* build_rag_answer(user_text), with the retriever loaded or None
build_rag_answer(text, loaded, retrieval, llm_ok) ==
    LET context_parts ==
            IF ~loaded \/ retrieval.raised THEN <<>>
            ELSE SubSeq(retrieval.docs, 1, IF Len(retrieval.docs) < TOP_K
                                           THEN Len(retrieval.docs) ELSE TOP_K)
        rag_prompt == [template |-> "rag", user_text |-> text,
                       context |-> JoinWith(context_parts, "\n\n---\n\n"),
                       data |-> <<>>]
    IN  [raised |-> FALSE, exc |-> "", prompt |-> rag_prompt,
         calls |-> <<"build_rag_answer">>
                    \o (IF loaded THEN <<"retriever.invoke">> ELSE <<>>)
                    \o <<"llm.invoke">>,
         value |-> IF llm_ok THEN LlmContent(rag_prompt) ELSE RAG_APOLOGY]

(***************************************************************************)
(* build_index.py: load_pdf_texts and split_texts                          *)
(***************************************************************************)

\* a directory entry: PdfReader(path) succeeds or raises, reader.pages can be
\* walked or raises, and each page extracts a text, None, or raises
PdfFile(name, opens, pages_ok, pages) ==
    [name |-> name, opens |-> opens, pages_ok |-> pages_ok, pages |-> pages]

PageText(text) == [raises |-> FALSE, text |-> text]

PageRaises == [raises |-> TRUE, text |-> None]

\* s.endswith(suffix)
EndsWith(s, suffix) ==
    Len(s) >= Len(suffix) /\ SubSeq(s, Len(s) - Len(suffix) + 1, Len(s)) = suffix

RECURSIVE SelectPdf(_)
\* line 39: the entries whose lower-cased name ends with ".pdf"
SelectPdf(files) ==
    IF files = <<>> THEN <<>>
    ELSE (IF EndsWith(Lower(Head(files).name), ".pdf") THEN <<Head(files)>> ELSE <<>>)
            \o SelectPdf(Tail(files))

RECURSIVE LoadPagesZeroBased(_, _, _)
\* LoadPages with the page recorded as page_num, counted from 0
LoadPagesZeroBased(file, page_num, acc) ==
    IF page_num >= Len(file.pages) THEN acc
    ELSE LET page == file.pages[page_num + 1]
             page_text == Strip(IF page.raises THEN "" ELSE OrEmpty(page.text))
         IN  IF page_text = ""
             THEN LoadPagesZeroBased(file, page_num + 1, acc)
             ELSE LoadPagesZeroBased(file, page_num + 1,
                    [texts |-> Append(acc.texts, page_text),
                     metadatas |-> Append(acc.metadatas,
                                    [source |-> file.name, page |-> page_num])])

RECURSIVE LoadPages(_, _, _)
\* lines 55-73: the texts and metadatas of the pages of one file from page_num on
LoadPages(file, page_num, acc) ==
    IF page_num >= Len(file.pages) THEN acc
    ELSE LET page == file.pages[page_num + 1]
             page_text == Strip(IF page.raises THEN "" ELSE OrEmpty(page.text))
         IN  IF page_text = ""
             THEN LoadPages(file, page_num + 1, acc)
             ELSE LoadPages(file, page_num + 1,
                    [texts |-> Append(acc.texts, page_text),
                     metadatas |-> Append(acc.metadatas,
                                    [source |-> file.name, page |-> page_num + 1])])

PagesError == "File has not been decrypted"

RECURSIVE LoadFiles(_, _)
\* lines 45-73: the loop over pdf_files; an error of reader.pages is not caught
LoadFiles(pdf_files, acc) ==
    IF pdf_files = <<>> THEN [raised |-> FALSE, exc |-> ""] @@ acc
    ELSE LET file == Head(pdf_files)
         IN  IF ~file.opens THEN LoadFiles(Tail(pdf_files), acc)
             ELSE IF ~file.pages_ok
             THEN [raised |-> TRUE, exc |-> PagesError, texts |-> <<>>, metadatas |-> <<>>]
             ELSE LoadFiles(Tail(pdf_files), LoadPages(file, 0, acc))

NoTexts == [texts |-> <<>>, metadatas |-> <<>>]

\* load_pdf_texts(), DATA_DIR being dir
load_pdf_texts(dir) ==
    IF ~dir.exists \/ ~dir.isdir THEN [raised |-> FALSE, exc |-> ""] @@ NoTexts
    ELSE LoadFiles(SelectPdf(dir.files), NoTexts)

\* the separators of RecursiveCharacterTextSplitter
Separators == <<"\n\n", "\n", " ", "">>

RECURSIVE Pieces(_, _, _)
\* re.split of _split_text_with_regex with the separator kept at the start of
\* the piece that follows it; r starts with lead characters of separator
Pieces(r, sep, lead) ==
    LET i == Find(StrFrom(r, lead), sep)
    IN  IF i = -1 THEN <<r>>
        ELSE <<StrTo(r, lead + i)>> \o Pieces(StrFrom(r, lead + i), sep, Len(sep))

RECURSIVE Chars(_)
\* list(text)
Chars(text) == IF text = "" THEN <<>> ELSE <<Head(text)>> \o Chars(Tail(text))

\* _split_text_with_regex(text, separator, keep_separator = True)
SplitKeeping(text, sep) ==
    SelectSeq(IF sep = "" THEN Chars(text) ELSE Pieces(text, sep, 0),
              LAMBDA piece : piece # "")

RECURSIVE TotalLen(_)
\* the summed length of the pieces of a chunk under construction
TotalLen(doc) == IF doc = <<>> THEN 0 ELSE Len(Head(doc)) + TotalLen(Tail(doc))

\* _join_docs with an empty separator: the stripped text, dropped when empty
JoinDocs(doc) ==
    LET text == Strip(JoinWith(doc, ""))
    IN  IF text = "" THEN <<>> ELSE <<text>>

RECURSIVE DropForOverlap(_, _, _, _)
\* the while loop of _merge_splits: pieces leave the front of the chunk until
\* what is left is within the overlap and the next piece fits
DropForOverlap(doc, next_len, chunk_size, chunk_overlap) ==
    IF \/ TotalLen(doc) > chunk_overlap
       \/ (TotalLen(doc) + next_len > chunk_size /\ TotalLen(doc) > 0)
    THEN DropForOverlap(Tail(doc), next_len, chunk_size, chunk_overlap)
    ELSE doc

RECURSIVE MergeFrom(_, _, _, _)
\* _merge_splits(splits, "") with current_doc = doc
MergeFrom(splits, doc, chunk_size, chunk_overlap) ==
    IF splits = <<>> THEN JoinDocs(doc)
    ELSE LET d == Head(splits)
         IN  IF TotalLen(doc) + Len(d) > chunk_size /\ doc # <<>>
             THEN JoinDocs(doc)
                    \o MergeFrom(Tail(splits),
                                 Append(DropForOverlap(doc, Len(d), chunk_size, chunk_overlap), d),
                                 chunk_size, chunk_overlap)
             ELSE MergeFrom(Tail(splits), Append(doc, d), chunk_size, chunk_overlap)

\* the first separator found in text, "" being found in every text
SeparatorIndex(text, separators) ==
    CHOOSE i \in 1..Len(separators) :
        /\ separators[i] = "" \/ Contains(text, separators[i])
        /\ \A j \in 1..(i - 1) : separators[j] # "" /\ ~Contains(text, separators[j])

RECURSIVE SplitPieces(_, _, _, _, _)

RECURSIVE RecursiveSplit(_, _, _, _)
\* RecursiveCharacterTextSplitter._split_text(text, separators)
RecursiveSplit(text, separators, chunk_size, chunk_overlap) ==
    LET i == SeparatorIndex(text, separators)
        separator == separators[i]
        new_separators == IF separator = "" THEN <<>>
                          ELSE SubSeq(separators, i + 1, Len(separators))
    IN  SplitPieces(SplitKeeping(text, separator), <<>>, new_separators,
                    chunk_size, chunk_overlap)

\* the loop of _split_text over the pieces, good being _good_splits
SplitPieces(splits, good, new_separators, chunk_size, chunk_overlap) ==
    IF splits = <<>>
    THEN (IF good = <<>> THEN <<>> ELSE MergeFrom(good, <<>>, chunk_size, chunk_overlap))
    ELSE LET piece == Head(splits)
         IN  IF Len(piece) < chunk_size
             THEN SplitPieces(Tail(splits), Append(good, piece), new_separators,
                              chunk_size, chunk_overlap)
             ELSE (IF good = <<>> THEN <<>>
                   ELSE MergeFrom(good, <<>>, chunk_size, chunk_overlap))
                    \o (IF new_separators = <<>> THEN <<piece>>
                        ELSE RecursiveSplit(piece, new_separators, chunk_size, chunk_overlap))
                    \o SplitPieces(Tail(splits), <<>>, new_separators,
                                   chunk_size, chunk_overlap)

\* text_splitter.split_text(text)
split_text(text, chunk_size, chunk_overlap) ==
    RecursiveSplit(text, Separators, chunk_size, chunk_overlap)

RECURSIVE ChunkMetadatas(_, _, _)
\* lines 92-100: the metadatas of chunks i .. n - 1 of one page
ChunkMetadatas(metadata, i, n) ==
    IF i >= n THEN <<>>
    ELSE <<[source |-> metadata.source, page |-> metadata.page, chunk |-> i]>>
            \o ChunkMetadatas(metadata, i + 1, n)

RECURSIVE SplitFromPage(_, _, _, _, _)
\* lines 90-100: the loop over zip(texts, metadatas) from 1-based position k on
SplitFromPage(texts, metadatas, k, chunk_size, chunk_overlap) ==
    IF k > Len(texts) \/ k > Len(metadatas)
    THEN [chunks |-> <<>>, metadatas |-> <<>>]
    ELSE LET chunks == split_text(texts[k], chunk_size, chunk_overlap)
             rest == SplitFromPage(texts, metadatas, k + 1, chunk_size, chunk_overlap)
         IN  [chunks |-> chunks \o rest.chunks,
              metadatas |-> ChunkMetadatas(metadatas[k], 0, Len(chunks)) \o rest.metadatas]

\* split_texts(texts, metadatas, chunk_size, chunk_overlap)
split_texts(texts, metadatas, chunk_size, chunk_overlap) ==
    SplitFromPage(texts, metadatas, 1, chunk_size, chunk_overlap)

(***************************************************************************)
(* Bounds and inputs                                                       *)
(***************************************************************************)

\* the most fragments a message text is made of
MaxFrags == 2

\* the most items the remote board holds
MaxItems == 2

\* the most chunks the retriever returns
MaxDocs == 6

\* the pieces message texts are put together from (7-bit text, as all values
\* of the state)
Fragments == {"<@U1> ", "Monday Test, ", "CRM: ", "alle kunder i monday ",
              "kunden Acme i monday ", "skriv email, prepare meeting ",
              "prepare meeting, next steps ", "next steps "}

RECURSIVE TextsOf(_)
\* the texts of exactly n fragments
TextsOf(n) ==
    IF n = 0 THEN {""}
    ELSE {t \o f : t \in TextsOf(n - 1), f \in Fragments}

\* event["text"]: every text of at most MaxFrags fragments
Texts == UNION {TextsOf(n) : n \in 0..MaxFrags}

\* the items of the customer board
CrmItems == <<
    [id |-> "1", name |-> "Acme Corp",
     column_values |-> <<[id |-> "status", text |-> "Lead"],
                         [id |-> "email", text |-> "kim@acme.dk"]>>],
    [id |-> "2", name |-> "Beta ApS",
     column_values |-> <<[id |-> "status", text |-> None],
                         [id |-> "note", text |-> "Partner of ACME"]>>],
    [id |-> "3", name |-> "TechNova", column_values |-> <<>>],
    [id |-> "4", name |-> None,
     column_values |-> <<[id |-> "note", text |-> "technova lead"]>>] >>

BoardSize == IF MaxItems < Len(CrmItems) THEN MaxItems ELSE Len(CrmItems)

\* what the remote answers to the items query while a mention is handled
ItemsResponses ==
    {RemoteFailure(k) : k \in RemoteFailureKinds}
        \cup {RemoteOk(NullData), RemoteOk(BoardsData(<<>>)),
              RemoteOk(BoardsData(<<BoardWithoutPage>>))}
        \cup {RemoteOk(BoardsData(<<Board(SubSeq(CrmItems, 1, n))>>)) : n \in 0..BoardSize}

\* what the remote answers to the query { me { name email } }
MeResponses ==
    {RemoteFailure(k) : k \in RemoteFailureKinds}
        \cup {RemoteOk(NullData), RemoteOk(MeNullData),
              RemoteOk(MeData([name |-> "Kim", email |-> "kim@saiborg.dk"]))}

\* doc.page_content of the n chunks the retriever returns, best first
Docs(n) == [k \in 1..n |-> "chunk " \o ToString(k)]

RetrieverOutcomes == {RetrieverRaises} \cup {RetrieverReturns(Docs(n)) : n \in {0, 1, MaxDocs}}

\* str(e) of the errors the chat client raises
SayError == "say: channel_not_found"

PostError == "chat_postMessage: ratelimited"

(***************************************************************************)
(* app.py: handle_mention, step by step                                    *)
(***************************************************************************)

VARIABLES
    api_key,        \* MONDAY_API_KEY is set
    retriever,      \* the Chroma retriever was loaded (it is not None)
    pc,             \* where the handler is
    event,          \* the app_mention event
    thread_ts, user_text, lower,
    branch,         \* the branch of the if / elif / else taken, "" before
    strategy, search_term, items, mode, reply,
    prompt,         \* the prompt of the last llm.invoke
    calls,          \* the functions and remote calls made so far, in order
    posts,          \* the messages delivered to the chat, in order
    caught,         \* str(e) in the except clause of line 464, "" before
    exc,            \* str(e) of the exception that left the handler, "" if none
    crm,            \* how the remote CRM call ended, "none" if none was made
    fetched,        \* the items the remote CRM call returned
    llm,            \* how llm.invoke ended, "none" if it was not called
    retrieval,      \* how retriever.invoke ended, "none" if it was not called
    docs            \* the page_content of the docs retriever.invoke returned

\* build_index.py
VARIABLES
    data_dir,       \* DATA_DIR: what is at the path and the files in it
    db,             \* DB_DIR: the persisted index
    db_before,      \* the persisted index as the run found it
    chunk_size, chunk_overlap,
    raw,            \* raw_texts and raw_metadatas of main
    all_chunks, all_metadatas,
    embeddings      \* the embedding client was created

index_vars == <<data_dir, db, db_before, chunk_size, chunk_overlap, raw,
                all_chunks, all_metadatas, embeddings>>

vars == <<api_key, retriever, pc, event, thread_ts, user_text, lower, branch,
          strategy, search_term, items, mode, reply, prompt, calls, posts,
          caught, exc, crm, fetched, llm, retrieval, docs, index_vars>>

\* a path with nothing at it
NoDir == [exists |-> FALSE, isdir |-> FALSE, files |-> <<>>]

\* no persisted index
NoIndex == [exists |-> FALSE, intact |-> TRUE, entries |-> <<>>]

\* the indexer is not running
IndexIdle ==
    /\ data_dir = NoDir
    /\ db = NoIndex
    /\ db_before = NoIndex
    /\ chunk_size = 1000
    /\ chunk_overlap = 200
    /\ raw = NoTexts
    /\ all_chunks = <<>>
    /\ all_metadatas = <<>>
    /\ embeddings = FALSE

NoEvent == [channel |-> "", ts |-> "", thread_ts |-> None, text |-> ""]

Init ==
    /\ api_key \in BOOLEAN
    /\ retriever \in BOOLEAN
    /\ pc = "idle"
    /\ event = NoEvent
    /\ thread_ts = ""
    /\ user_text = ""
    /\ lower = ""
    /\ branch = ""
    /\ strategy = ""
    /\ search_term = None
    /\ items = <<>>
    /\ mode = ""
    /\ reply = ""
    /\ prompt = NoPrompt
    /\ calls = <<>>
    /\ posts = <<>>
    /\ caught = ""
    /\ exc = ""
    /\ crm = "none"
    /\ fetched = <<>>
    /\ llm = "none"
    /\ retrieval = "none"
    /\ docs = <<>>
    /\ IndexIdle

Message(text) == [channel |-> event.channel, thread_ts |-> thread_ts, text |-> text]

\* lines 376-386: read the event, strip the mention, say the working notice
Receive ==
    /\ pc = "idle"
    /\ \E text \in Texts, thread \in {None, "99.5"}, say_ok \in BOOLEAN :
        LET ev == [channel |-> "C1", ts |-> "100.1", thread_ts |-> thread, text |-> text]
            ts == IF ev.thread_ts = None THEN ev.ts ELSE ev.thread_ts
        IN  /\ event' = ev
            /\ thread_ts' = ts
            /\ user_text' = strip_bot_mention(ev.text)
            /\ lower' = Lower(strip_bot_mention(ev.text))
            /\ calls' = <<"say">>
            /\ IF say_ok
               THEN /\ posts' = <<[channel |-> ev.channel, thread_ts |-> ts, text |-> THINKING]>>
                    /\ pc' = "classify"
                    /\ exc' = exc
               ELSE /\ posts' = posts
                    /\ pc' = "escaped"
                    /\ exc' = SayError
    /\ UNCHANGED <<index_vars, docs, api_key, retriever, branch, strategy, search_term, items, mode,
                   reply, prompt, caught, crm, fetched, llm, retrieval>>

\* NextStep with the key check hoisted above the routing
NextStepKeyFirst(text, key) ==
    IF ~key THEN "post_reply"
    ELSE IF Route(text) = "qa" THEN "build_rag_answer"
    ELSE IF Route(text) = "health" THEN "call_monday"
    ELSE IF FetchStrategy(text) = "AllRecords" THEN "get_all_items"
    ELSE "search_items_by_text"

\* lines 392-456: the call the handler makes next for a text, "post_reply" when
\* the reply needs none
NextStep(text, key) ==
    IF Route(text) = "qa" THEN "build_rag_answer"
    ELSE IF ~key THEN "post_reply"
    ELSE IF Route(text) = "health" THEN "call_monday"
    ELSE IF FetchStrategy(text) = "AllRecords" THEN "get_all_items"
    ELSE "search_items_by_text"

\* lines 389-432 and 436: the branch, the key checks, the fetch strategy
Classify ==
    /\ pc = "classify"
    /\ branch' = Route(lower)
    /\ pc' = NextStep(lower, api_key)
    /\ reply' = IF NextStep(lower, api_key) # "post_reply" THEN reply
                ELSE IF Route(lower) = "health" THEN NO_KEY_HEALTH ELSE NO_KEY_CRM
    /\ strategy' = IF NextStep(lower, api_key) = "get_all_items" THEN "AllRecords"
                   ELSE IF NextStep(lower, api_key) = "search_items_by_text"
                   THEN "SearchByName" ELSE strategy
    /\ IF NextStep(lower, api_key) = "search_items_by_text"
       THEN /\ search_term' = extract_customer_name(user_text)
            /\ calls' = calls \o <<"extract_customer_name">>
       ELSE UNCHANGED <<search_term, calls>>
    /\ UNCHANGED <<index_vars, docs, api_key, retriever, event, thread_ts, user_text, lower, items, mode,
                   prompt, posts, caught, exc, crm, fetched, llm, retrieval>>

\* how the remote call of a function's outcome r ended, given the answer remote
CrmOutcome(r, remote) ==
    IF \E k \in 1..Len(r.calls) : r.calls[k] = "requests.post" THEN remote.kind ELSE "none"

\* lines 396-402: the health check
HealthCheck ==
    /\ pc = "call_monday"
    /\ \E remote \in MeResponses :
        LET r == call_monday(api_key, remote)
        IN  /\ calls' = calls \o r.calls
            /\ crm' = CrmOutcome(r, remote)
            /\ IF r.raised
               THEN /\ caught' = r.exc
                    /\ pc' = "except"
                    /\ reply' = reply
               ELSE /\ reply' = IF ~r.value.null /\ r.value.has_me
                                THEN HealthOk(r.value.me) ELSE HEALTH_NO_USER
                    /\ pc' = "post_reply"
                    /\ caught' = caught
    /\ UNCHANGED <<index_vars, docs, api_key, retriever, event, thread_ts, user_text, lower, branch,
                   strategy, search_term, items, mode, prompt, posts, exc, fetched, llm, retrieval>>

\* AfterFetch without the check "if not items" of line 448
AfterFetchUnchecked(r, remote) ==
    /\ calls' = calls \o r.calls
    /\ crm' = CrmOutcome(r, remote)
    /\ fetched' = IF CrmOutcome(r, remote) = "ok" THEN get_all_items(api_key, remote).value
                  ELSE <<>>
    /\ IF r.raised
       THEN /\ caught' = r.exc
            /\ pc' = "except"
            /\ UNCHANGED <<items, mode, reply>>
       ELSE /\ items' = r.value
            /\ mode' = DecideMode(lower)
            /\ caught' = caught
            /\ reply' = reply
            /\ pc' = "build_monday_answer"

\* lines 440-452 up to the call of build_monday_answer, with the fetch's outcome r
AfterFetch(r, remote) ==
    /\ calls' = calls \o r.calls
    /\ crm' = CrmOutcome(r, remote)
    /\ fetched' = IF CrmOutcome(r, remote) = "ok" THEN get_all_items(api_key, remote).value
                  ELSE <<>>
    /\ IF r.raised
       THEN /\ caught' = r.exc
            /\ pc' = "except"
            /\ UNCHANGED <<items, mode, reply>>
       ELSE /\ items' = r.value
            /\ mode' = DecideMode(lower)
            /\ caught' = caught
            /\ IF r.value = <<>>
               THEN reply' = NO_MATCH /\ pc' = "post_reply"
               ELSE reply' = reply /\ pc' = "build_monday_answer"

\* lines 433-434, then 440-449
FetchAll ==
    /\ pc = "get_all_items"
    /\ \E remote \in ItemsResponses : AfterFetch(get_all_items(api_key, remote), remote)
    /\ UNCHANGED <<index_vars, docs, api_key, retriever, event, thread_ts, user_text, lower, branch,
                   strategy, search_term, prompt, posts, exc, llm, retrieval>>

\* lines 437-438, then 440-449
Search ==
    /\ pc = "search_items_by_text"
    /\ \E remote \in ItemsResponses :
        AfterFetch(search_items_by_text(api_key, search_term, remote), remote)
    /\ UNCHANGED <<index_vars, docs, api_key, retriever, event, thread_ts, user_text, lower, branch,
                   strategy, search_term, prompt, posts, exc, llm, retrieval>>

\* the handler's step after a composer's outcome r (lines 452, 456)
AfterCompose(r, llm_ok) ==
    /\ prompt' = r.prompt
    /\ calls' = calls \o r.calls
    /\ llm' = IF llm_ok THEN "ok" ELSE "raised"
    /\ IF r.raised
       THEN caught' = r.exc /\ pc' = "except" /\ reply' = reply
       ELSE caught' = caught /\ pc' = "post_reply" /\ reply' = r.value

\* line 452
BuildMondayAnswer ==
    /\ pc = "build_monday_answer"
    /\ \E llm_ok \in BOOLEAN :
        AfterCompose(build_monday_answer(user_text, items, mode, llm_ok), llm_ok)
    /\ UNCHANGED <<index_vars, docs, api_key, retriever, event, thread_ts, user_text, lower, branch,
                   strategy, search_term, items, mode, posts, exc, crm, fetched,
                   retrieval>>

\* line 456
BuildRagAnswer ==
    /\ pc = "build_rag_answer"
    /\ \E outcome \in RetrieverOutcomes, llm_ok \in BOOLEAN :
        /\ AfterCompose(build_rag_answer(user_text, retriever, outcome, llm_ok), llm_ok)
        /\ retrieval' = IF ~retriever THEN "none"
                        ELSE IF outcome.raised THEN "raised" ELSE "ok"
        /\ docs' = IF retriever THEN outcome.docs ELSE <<>>
    /\ UNCHANGED <<index_vars, api_key, retriever, event, thread_ts, user_text, lower, branch,
                   strategy, search_term, items, mode, posts, exc, crm, fetched>>

\* PostReply followed, inside the try, by a statement that raises
PostReplyThenRaise ==
    /\ pc = "post_reply"
    /\ calls' = calls \o <<"chat_postMessage">>
    /\ \E post_ok \in BOOLEAN :
        IF post_ok
        THEN /\ posts' = posts \o <<[channel |-> event.channel,
                                     thread_ts |-> thread_ts, text |-> reply]>>
             /\ pc' = "except"
             /\ caught' = "KeyError: 'ts'"
        ELSE posts' = posts /\ pc' = "except" /\ caught' = PostError
    /\ UNCHANGED <<index_vars, docs, api_key, retriever, event, thread_ts, user_text, lower, branch,
                   strategy, search_term, items, mode, reply, prompt, exc, crm,
                   fetched, llm, retrieval>>

\* lines 458-462: post the reply; an error of the call goes to the except clause
PostReply ==
    /\ pc = "post_reply"
    /\ calls' = calls \o <<"chat_postMessage">>
    /\ \E post_ok \in BOOLEAN :
        IF post_ok
        THEN posts' = posts \o <<Message(reply)>> /\ pc' = "done" /\ caught' = caught
        ELSE posts' = posts /\ pc' = "except" /\ caught' = PostError
    /\ UNCHANGED <<index_vars, docs, api_key, retriever, event, thread_ts, user_text, lower, branch,
                   strategy, search_term, items, mode, reply, prompt, exc, crm,
                   fetched, llm, retrieval>>

\* lines 464-470: post the failure notice; an error of this call leaves the handler
PostFailureNotice ==
    /\ pc = "except"
    /\ calls' = calls \o <<"chat_postMessage">>
    /\ \E post_ok \in BOOLEAN :
        IF post_ok
        THEN posts' = posts \o <<Message(FailureNotice(caught))>> /\ pc' = "done" /\ exc' = exc
        ELSE posts' = posts /\ pc' = "escaped" /\ exc' = PostError
    /\ UNCHANGED <<index_vars, docs, api_key, retriever, event, thread_ts, user_text, lower, branch,
                   strategy, search_term, items, mode, reply, prompt, caught, crm,
                   fetched, llm, retrieval>>

(***************************************************************************)
(* monday_client.py: search_items_by_text called on its own                *)
(***************************************************************************)

\* the text argument: None, empty, blank, and terms in several cases
SearchTexts == {None, "", "  ", "acme", " ACME ", "Acme Corp", "lead", "TechNova",
                "e", "zzz"}

RECURSIVE ItemLists(_)
\* the lists of exactly n items of the board, in any order, repeats included
ItemLists(n) ==
    IF n = 0 THEN {<<>>}
    ELSE {l \o <<CrmItems[k]>> : l \in ItemLists(n - 1), k \in 1..Len(CrmItems)}

\* what the remote answers to the items query of a search
SearchResponses ==
    {RemoteFailure(k) : k \in RemoteFailureKinds}
        \cup {RemoteOk(NullData), RemoteOk(BoardsData(<<>>)),
              RemoteOk(BoardsData(<<BoardWithoutPage>>))}
        \cup {RemoteOk(BoardsData(<<Board(l)>>)) : l \in UNION {ItemLists(n) : n \in 0..MaxItems}}

InitSearch ==
    /\ api_key \in BOOLEAN
    /\ retriever = FALSE
    /\ pc = "search_idle"
    /\ event = NoEvent
    /\ thread_ts = ""
    /\ user_text = ""
    /\ lower = ""
    /\ branch = ""
    /\ strategy = ""
    /\ search_term = None
    /\ items = <<>>
    /\ mode = ""
    /\ reply = ""
    /\ prompt = NoPrompt
    /\ calls = <<>>
    /\ posts = <<>>
    /\ caught = ""
    /\ exc = ""
    /\ crm = "none"
    /\ fetched = <<>>
    /\ llm = "none"
    /\ retrieval = "none"
    /\ docs = <<>>
    /\ IndexIdle

\* one call search_items_by_text(board_id, text)
SearchCall ==
    /\ pc = "search_idle"
    /\ \E text \in SearchTexts, remote \in SearchResponses :
        LET r == search_items_by_text(api_key, text, remote)
        IN  /\ search_term' = text
            /\ calls' = r.calls
            /\ crm' = CrmOutcome(r, remote)
            /\ fetched' = IF CrmOutcome(r, remote) = "ok"
                          THEN get_all_items(api_key, remote).value ELSE <<>>
            /\ items' = r.value
            /\ exc' = r.exc
            /\ pc' = IF r.raised THEN "search_raised" ELSE "search_returned"
    /\ UNCHANGED <<index_vars, docs, api_key, retriever, event, thread_ts, user_text, lower, branch,
                   strategy, mode, reply, prompt, posts, caught, llm, retrieval>>

NextSearch == SearchCall

SpecSearch == InitSearch /\ [][NextSearch]_vars

(***************************************************************************)
(* app.py: extract_customer_name on its own                                *)
(***************************************************************************)

\* the most fragments a text handed to extract_customer_name is made of
MaxNameFrags == 3

\* the pieces those texts are put together from
NameFragments == {"- ", "-acme ", "kunden Acme ", "kunde beta. ", "i monday", "og ",
                  "find TechNova, ", "hvad er status", "?? ", "x ", "Ny"}

RECURSIVE NameTextsOf(_)
\* the texts of exactly n fragments
NameTextsOf(n) ==
    IF n = 0 THEN {""}
    ELSE {t \o f : t \in NameTextsOf(n - 1), f \in NameFragments}

\* the texts extract_customer_name is called with
NameTexts == UNION {NameTextsOf(n) : n \in 0..MaxNameFrags}

InitExtract ==
    /\ api_key = FALSE
    /\ retriever = FALSE
    /\ pc = "extract_idle"
    /\ event = NoEvent
    /\ thread_ts = ""
    /\ user_text = ""
    /\ lower = ""
    /\ branch = ""
    /\ strategy = ""
    /\ search_term = None
    /\ items = <<>>
    /\ mode = ""
    /\ reply = ""
    /\ prompt = NoPrompt
    /\ calls = <<>>
    /\ posts = <<>>
    /\ caught = ""
    /\ exc = ""
    /\ crm = "none"
    /\ fetched = <<>>
    /\ llm = "none"
    /\ retrieval = "none"
    /\ docs = <<>>
    /\ IndexIdle

\* one call extract_customer_name(text)
ExtractCall ==
    /\ pc = "extract_idle"
    /\ \E text \in NameTexts :
        /\ user_text' = text
        /\ search_term' = extract_customer_name(text)
    /\ calls' = <<"extract_customer_name">>
    /\ pc' = "extract_returned"
    /\ UNCHANGED <<index_vars, docs, api_key, retriever, event, thread_ts, lower, branch, strategy,
                   items, mode, reply, prompt, posts, caught, exc, crm, fetched,
                   llm, retrieval>>

NextExtract == ExtractCall

SpecExtract == InitExtract /\ [][NextExtract]_vars

(***************************************************************************)
(* build_index.py: main, step by step                                      *)
(***************************************************************************)

\* the most pages of a document
MaxPages == 2

\* what a page of a document gives to extract_text()
PageKinds == {PageRaises, PageText(None), PageText("  "), PageText(" ab cd "),
              PageText("abcdefgh ij\nk")}

RECURSIVE PageLists(_)
\* the lists of exactly n pages
PageLists(n) ==
    IF n = 0 THEN {<<>>}
    ELSE {l \o <<page>> : l \in PageLists(n - 1), page \in PageKinds}

\* the documents called a.pdf: unreadable, unwalkable, or of at most MaxPages pages
FirstFiles ==
    {PdfFile("a.pdf", FALSE, TRUE, <<>>), PdfFile("a.pdf", TRUE, FALSE, <<>>)}
        \cup {PdfFile("a.pdf", TRUE, TRUE, l) : l \in UNION {PageLists(n) : n \in 0..MaxPages}}

\* the other entries of the directory
OtherFiles ==
    {<<>>,
     <<PdfFile("notes.txt", TRUE, TRUE, <<PageText("not a pdf")>>)>>,
     <<PdfFile("B.PDF", TRUE, TRUE, <<PageText("page one"), PageRaises, PageText("x y")>>)>>,
     <<PdfFile("B.PDF", FALSE, TRUE, <<>>)>>}

\* what DATA_DIR can be: nothing, a file, a directory of any listing order
DataDirs ==
    {NoDir, [exists |-> TRUE, isdir |-> FALSE, files |-> <<>>],
            [exists |-> TRUE, isdir |-> TRUE, files |-> <<>>]}
        \cup {[exists |-> TRUE, isdir |-> TRUE, files |-> <<f>> \o o] :
                f \in FirstFiles, o \in OtherFiles}
        \cup {[exists |-> TRUE, isdir |-> TRUE, files |-> o \o <<f>>] :
                f \in FirstFiles, o \in OtherFiles}

\* the index an earlier run persisted
OldIndex ==
    [exists |-> TRUE, intact |-> TRUE,
     entries |-> <<[text |-> "old chunk",
                    metadata |-> [source |-> "old.pdf", page |-> 1, chunk |-> 0]]>>]

\* CHUNK_SIZE and CHUNK_OVERLAP as the environment sets them
ChunkSettings == {<<1000, 200>>, <<4, 1>>, <<3, 0>>, <<2, 3>>}

\* the message of the ValueError of the splitter's constructor
OverlapError == "Got a larger chunk overlap than chunk size"

BuildError == "Chroma.from_texts: embedding request failed"

InitIndex ==
    /\ api_key = FALSE
    /\ retriever = FALSE
    /\ pc = "main"
    /\ event = NoEvent
    /\ thread_ts = ""
    /\ user_text = ""
    /\ lower = ""
    /\ branch = ""
    /\ strategy = ""
    /\ search_term = None
    /\ items = <<>>
    /\ mode = ""
    /\ reply = ""
    /\ prompt = NoPrompt
    /\ calls = <<>>
    /\ posts = <<>>
    /\ caught = ""
    /\ exc = ""
    /\ crm = "none"
    /\ fetched = <<>>
    /\ llm = "none"
    /\ retrieval = "none"
    /\ docs = <<>>
    /\ data_dir \in DataDirs
    /\ db \in {NoIndex, OldIndex}
    /\ db_before = db
    /\ \E setting \in ChunkSettings :
        chunk_size = setting[1] /\ chunk_overlap = setting[2]
    /\ raw = NoTexts
    /\ all_chunks = <<>>
    /\ all_metadatas = <<>>
    /\ embeddings = FALSE

handler_vars == <<api_key, retriever, event, thread_ts, user_text, lower, branch,
                  strategy, search_term, items, mode, reply, prompt, posts, caught,
                  crm, fetched, llm, retrieval, docs>>

\* lines 108-112: load the page texts, stop when there are none
IndexLoad ==
    /\ pc = "main"
    /\ LET r == load_pdf_texts(data_dir)
       IN  /\ raw' = [texts |-> r.texts, metadatas |-> r.metadatas]
           /\ exc' = r.exc
           /\ pc' = IF r.raised THEN "main_raised"
                    ELSE IF r.texts = <<>> THEN "main_returned"
                    ELSE "split_texts"
    /\ calls' = calls \o <<"load_pdf_texts">>
    /\ UNCHANGED <<handler_vars, data_dir, db, db_before, chunk_size, chunk_overlap,
                   all_chunks, all_metadatas, embeddings>>

\* lines 118-119: split the page texts; the splitter refuses an overlap larger
\* than the chunk size
IndexSplit ==
    /\ pc = "split_texts"
    /\ calls' = calls \o <<"split_texts">>
    /\ IF chunk_overlap > chunk_size
       THEN /\ exc' = OverlapError
            /\ pc' = "main_raised"
            /\ UNCHANGED <<all_chunks, all_metadatas>>
       ELSE LET r == split_texts(raw.texts, raw.metadatas, chunk_size, chunk_overlap)
            IN  /\ all_chunks' = r.chunks
                /\ all_metadatas' = r.metadatas
                /\ pc' = "embeddings"
                /\ exc' = exc
    /\ UNCHANGED <<handler_vars, data_dir, db, db_before, chunk_size, chunk_overlap,
                   raw, embeddings>>

\* lines 124-128: create the embedding client, stop when that fails
IndexEmbeddings ==
    /\ pc = "embeddings"
    /\ calls' = calls \o <<"GoogleGenerativeAIEmbeddings">>
    /\ \E ok \in BOOLEAN :
        /\ embeddings' = ok
        /\ pc' = IF ok THEN "rmtree" ELSE "main_returned"
    /\ UNCHANGED <<handler_vars, exc, data_dir, db, db_before, chunk_size,
                   chunk_overlap, raw, all_chunks, all_metadatas>>

\* what a failed shutil.rmtree leaves at DB_DIR
Damaged(index) == [exists |-> TRUE, intact |-> FALSE, entries |-> <<>>]

\* IndexDelete without the deletion: the build goes on over what is there
IndexDeleteSkipped ==
    /\ pc = "rmtree"
    /\ calls' = calls
    /\ db' = db
    /\ pc' = "from_texts"
    /\ UNCHANGED <<handler_vars, exc, data_dir, db_before, chunk_size, chunk_overlap,
                   raw, all_chunks, all_metadatas, embeddings>>

\* lines 131-137: delete the persisted index if there is one
IndexDelete ==
    /\ pc = "rmtree"
    /\ IF db.exists
       THEN /\ calls' = calls \o <<"shutil.rmtree">>
            /\ \E ok \in BOOLEAN :
                IF ok THEN db' = NoIndex /\ pc' = "from_texts"
                ELSE db' \in {db, Damaged(db)} /\ pc' = "main_returned"
       ELSE /\ calls' = calls
            /\ db' = db
            /\ pc' = "from_texts"
    /\ UNCHANGED <<handler_vars, exc, data_dir, db_before, chunk_size, chunk_overlap,
                   raw, all_chunks, all_metadatas, embeddings>>

\* the chunks with their metadatas, position by position
Entries(chunks, metadatas) ==
    [k \in 1..(IF Len(chunks) < Len(metadatas) THEN Len(chunks) ELSE Len(metadatas))
        |-> [text |-> chunks[k], metadata |-> metadatas[k]]]

\* Chroma.from_texts(..., persist_directory = DB_DIR): the texts are added to
\* the collection at DB_DIR, which is created when it is not there
from_texts(index, chunks, metadatas) ==
    [exists |-> TRUE, intact |-> index.intact,
     entries |-> index.entries \o Entries(chunks, metadatas)]

\* lines 139-149: build the index; a failure is raised
IndexBuild ==
    /\ pc = "from_texts"
    /\ calls' = calls \o <<"Chroma.from_texts">>
    /\ \E ok \in BOOLEAN :
        IF ok
        THEN /\ db' = from_texts(db, all_chunks, all_metadatas)
             /\ pc' = "main_done"
             /\ exc' = exc
        ELSE /\ db' \in {db, Damaged(db)}
             /\ pc' = "main_raised"
             /\ exc' = BuildError
    /\ UNCHANGED <<handler_vars, data_dir, db_before, chunk_size, chunk_overlap,
                   raw, all_chunks, all_metadatas, embeddings>>

NextIndex ==
    \/ IndexLoad
    \/ IndexSplit
    \/ IndexEmbeddings
    \/ IndexDelete
    \/ IndexBuild

SpecIndex == InitIndex /\ [][NextIndex]_vars

Next ==
    \/ Receive
    \/ Classify
    \/ HealthCheck
    \/ FetchAll
    \/ Search
    \/ BuildMondayAnswer
    \/ BuildRagAnswer
    \/ PostReply
    \/ PostFailureNotice

Spec == Init /\ [][Next]_vars

(***************************************************************************)
(* Properties                                                              *)
(***************************************************************************)

\* f is among the calls made so far
InCalls(f) == \E k \in 1..Len(calls) : calls[k] = f

\* the lower-cased, mention-stripped text of the event
EventText == Lower(strip_bot_mention(event.text))

\* the text of the last message delivered
LastPost == posts[Len(posts)].text

\* C1: once the handler has classified a message, the branch it took is the
\* health check if and only if the lower-cased, mention-stripped text holds
\* "monday test", else the CRM lookup if and only if it holds "monday" or "crm",
\* else the general answer; the calls made belong to that one branch only.
C1_StrictPriority ==
    branch # "" =>
        LET text == EventText
            test == Contains(text, "monday test")
            named == Contains(text, "monday") \/ Contains(text, "crm")
        IN  /\ branch \in {"health", "crm", "qa"}
            /\ branch = "health" <=> test
            /\ branch = "crm" <=> (~test /\ named)
            /\ branch = "qa" <=> ~named
            /\ InCalls("build_rag_answer") => branch = "qa"
            /\ (\/ InCalls("get_all_items") \/ InCalls("search_items_by_text")
                \/ InCalls("extract_customer_name") \/ InCalls("build_monday_answer"))
                    => branch = "crm"
            /\ (InCalls("_call_monday") /\ ~InCalls("get_all_items")) => branch = "health"

\* a health check was answered for a text that also names the CRM and an overview
C1_Witness ==
    /\ pc = "done"
    /\ branch = "health"
    /\ InCalls("_call_monday")
    /\ AnyPhrase(lower, overview_phrases)
    /\ Len(posts) = 2

\* C2: for a CRM lookup with the key configured, an overview phrase anywhere in
\* the text makes the handler call get_all_items and neither
\* extract_customer_name nor search_items_by_text; without one it calls
\* search_items_by_text with the extracted name, and get_all_items is called
\* only from inside search_items_by_text.
C2_FetchStrategy ==
    (branch = "crm" /\ api_key) =>
        IF LET text == EventText
           IN  \E phrase \in overview_phrases : Contains(text, phrase)
        THEN /\ strategy = "AllRecords"
             /\ ~InCalls("extract_customer_name")
             /\ ~InCalls("search_items_by_text")
             /\ pc # "get_all_items" => InCalls("get_all_items")
        ELSE /\ strategy = "SearchByName"
             /\ InCalls("extract_customer_name")
             /\ search_term = extract_customer_name(strip_bot_mention(event.text))
             /\ pc # "search_items_by_text" => InCalls("search_items_by_text")
             /\ \A k \in 1..Len(calls) :
                    calls[k] = "get_all_items" => calls[k - 1] = "search_items_by_text"

\* all records were fetched for a text that names a customer before the overview phrase
C2_Witness ==
    /\ pc = "done"
    /\ strategy = "AllRecords"
    /\ InCalls("get_all_items")
    /\ Find(lower, "kunden acme") # -1
    /\ Find(lower, "kunden acme") < Find(lower, "alle kunder")
    /\ items # <<>>

\* the mode the priority Email > Meeting > NextSteps > Summary gives a text
ModeByPriority(text) ==
    LET email == AnyPhrase(text, email_phrases)
        meeting == AnyPhrase(text, meeting_phrases)
        next == AnyPhrase(text, next_step_phrases)
    IN  CASE email -> "email_followup"
          [] ~email /\ meeting -> "meeting_prep"
          [] ~email /\ ~meeting /\ next -> "next_steps"
          [] OTHER -> "summary"

\* C3: the mode handed to build_monday_answer is the one the priority
\* Email > Meeting > NextSteps > Summary gives the text, under either fetch
\* strategy, and the prompt sent to the model is the template of that mode.
C3_ModePriority ==
    (pc = "build_monday_answer" \/ InCalls("build_monday_answer")) =>
        LET by_priority == ModeByPriority(EventText)
        IN  /\ mode = by_priority
            /\ strategy \in {"AllRecords", "SearchByName"}
            /\ InCalls("build_monday_answer") =>
                    /\ prompt.template = by_priority
                    /\ prompt.user_text = user_text

\* an email draft was composed for a text holding an email and a meeting phrase
C3_Witness ==
    /\ pc = "done"
    /\ InCalls("build_monday_answer")
    /\ AnyPhrase(lower, email_phrases)
    /\ AnyPhrase(lower, meeting_phrases)
    /\ prompt.template = "email_followup"
    /\ strategy = "SearchByName"

\* a record's name or one of its column texts holds term, whatever the case
HoldsTerm(item, term) ==
    \/ Contains(Lower(OrEmpty(item.name)), term)
    \/ \E k \in DOMAIN item.column_values :
            Contains(Lower(OrEmpty(item.column_values[k].text)), term)

\* C4: search_items_by_text returns an empty list without any remote call when
\* the trimmed, lower-cased term is empty; otherwise, when the fetch succeeds,
\* it returns exactly the fetched records whose name or some column text holds
\* the term, each once and in the order fetched.
C4_SearchExact ==
    pc = "search_returned" =>
        LET term == Lower(Strip(OrEmpty(search_term)))
        IN  IF term = ""
            THEN /\ items = <<>>
                 /\ calls = <<"search_items_by_text">>
                 /\ crm = "none"
            ELSE crm = "ok" => items = SelectSeq(fetched, LAMBDA item : HoldsTerm(item, term))

\* a search in capitals kept the one record of two that holds the term in a
\* column only
C4_Witness ==
    /\ pc = "search_returned"
    /\ crm = "ok"
    /\ search_term = " ACME "
    /\ Len(fetched) = 2
    /\ Len(items) = 1
    /\ items[1].name = "Beta ApS"

\* C5: search_items_by_text raises nothing: given the name the handler extracted,
\* with the key missing or the remote call failing it returns an empty list, and a SearchByName lookup whose remote
\* call failed goes on to the "no match" reply, not to the except clause.
C5_SearchNeverRaises ==
    /\ InCalls("extract_customer_name") =>
            \A key \in BOOLEAN, remote \in ItemsResponses :
                LET r == search_items_by_text(key, search_term, remote)
                IN  /\ ~r.raised
                    /\ (~key \/ remote.kind \in RemoteFailureKinds) => r.value = <<>>
    /\ (strategy = "SearchByName" /\ crm \in RemoteFailureKinds) =>
            /\ items = <<>>
            /\ reply = NO_MATCH
            /\ caught \in {"", PostError}
            /\ pc \in {"post_reply", "except", "done", "escaped"}
            /\ (pc = "done" /\ caught = "") => LastPost = NO_MATCH

\* a search whose remote call timed out was answered with the "no match" reply
C5_Witness ==
    /\ pc = "done"
    /\ strategy = "SearchByName"
    /\ crm = "timeout"
    /\ InCalls("requests.post")
    /\ Len(posts) = 2
    /\ LastPost = NO_MATCH

\* C6 as stated: whenever the remote CRM call failed, in any branch, the message
\* is answered with the failure notice and not with a normal or "no match" reply.
C6_AnyCrmFailureIsFatal ==
    (crm \in RemoteFailureKinds /\ pc = "done") =>
        /\ caught = RemoteErrorText(crm)
        /\ LastPost = FailureNotice(RemoteErrorText(crm))

\* C6 amended: a failed remote call raises out of _call_monday and get_all_items;
\* in the health check and the AllRecords lookup the handler then posts nothing
\* but the failure notice with the error text, while in the SearchByName lookup
\* search_items_by_text catches the error and the reply is "no match".
C6_CrmFailureFatalUnlessSearch ==
    crm \in RemoteFailureKinds =>
        /\ call_monday(api_key, RemoteFailure(crm)).raised
        /\ get_all_items(api_key, RemoteFailure(crm)).raised
        /\ IF strategy = "SearchByName"
           THEN reply = NO_MATCH /\ caught # RemoteErrorText(crm)
           ELSE /\ caught = RemoteErrorText(crm)
                /\ reply = ""
                /\ pc \in {"except", "done", "escaped"}
                /\ \A k \in 2..Len(posts) : posts[k].text = FailureNotice(RemoteErrorText(crm))
                /\ pc = "done" => (Len(posts) = 2 /\ LastPost = FailureNotice(RemoteErrorText(crm)))

\* an AllRecords lookup whose remote call got an HTTP error ended with the notice
C6_Witness ==
    /\ pc = "done"
    /\ strategy = "AllRecords"
    /\ crm = "http_error"
    /\ Len(posts) = 2
    /\ LastPost = FailureNotice(RemoteErrorText("http_error"))

\* C7: the answer composers raise nothing.  build_rag_answer invokes the model
\* with the question even with no index or a failing search, the context then
\* empty; a failing model gives the composer's fixed apology, which goes to
\* the reply post and not to the except clause.
C7_ComposersNeverRaise ==
    /\ InCalls("build_rag_answer") =>
            /\ InCalls("llm.invoke")
            /\ prompt.template = "rag"
            /\ prompt.user_text = strip_bot_mention(event.text)
            /\ (~retriever \/ retrieval = "raised") => prompt.context = ""
            /\ llm = "raised" => reply = RAG_APOLOGY
    /\ (InCalls("build_monday_answer") /\ llm = "raised") => reply = MONDAY_APOLOGY
    /\ llm # "none" =>
            /\ pc \in {"post_reply", "except", "done", "escaped"}
            /\ caught \in {"", PostError}
            /\ pc = "post_reply" => caught = ""
            /\ (pc = "done" /\ caught = "") => LastPost = reply

\* the search and the model both failed and the apology was delivered as the reply
C7_Witness ==
    /\ pc = "done"
    /\ retrieval = "raised"
    /\ llm = "raised"
    /\ caught = ""
    /\ Len(posts) = 2
    /\ LastPost = RAG_APOLOGY

\* the text is a failure notice of line 468
IsFailureNotice(text) == StartsAt(text, FailureNotice(""), 0)

\* C8: besides the working notice, at most one message is delivered for a
\* mention: never the computed answer and the failure notice both.
C8_AtMostOneReply ==
    /\ Len(posts) <= 2
    /\ Len(posts) >= 1 => posts[1].text = THINKING
    /\ Len(posts) = 2 => (IsFailureNotice(posts[2].text) <=> caught # "")

\* the reply post failed and the failure notice alone was delivered
C8_Witness ==
    /\ pc = "done"
    /\ caught = PostError
    /\ llm = "ok"
    /\ Len(posts) = 2
    /\ IsFailureNotice(LastPost)

\* C9: every exception of the pipeline is caught at the top level and a failure
\* notice is posted; no exception leaves handle_mention.
C9_NoExceptionEscapes ==
    /\ pc # "escaped"
    /\ exc = ""

\* C10: with no CRM key, a health-check or CRM-lookup message gets the fixed
\* "no API key" reply of its branch with no CRM call and no model call, and a
\* general question goes through build_rag_answer as it does with the key.
C10_NoKeyDegrades ==
    /\ (~api_key /\ branch \in {"health", "crm"}) =>
            /\ reply = IF branch = "health" THEN NO_KEY_HEALTH ELSE NO_KEY_CRM
            /\ crm = "none" /\ llm = "none"
            /\ \A k \in 1..Len(calls) : calls[k] \in {"say", "chat_postMessage"}
            /\ (pc = "done" /\ caught = "") => LastPost = reply
    /\ (branch = "qa" /\ pc # "build_rag_answer") =>
            /\ Len(calls) >= 2 /\ calls[2] = "build_rag_answer"
            /\ InCalls("llm.invoke")
            /\ reply \in {RAG_APOLOGY, LlmContent(prompt)}
            /\ crm = "none"

\* with no key, a CRM lookup was answered with the "no API key" reply
C10_Witness ==
    /\ pc = "done"
    /\ ~api_key
    /\ branch = "crm"
    /\ Len(posts) = 2
    /\ LastPost = NO_KEY_CRM

\* the text matches none of the patterns of extract_customer_name and holds no
\* capitalized word, but holds a letter or a digit
PlainText(text) ==
    LET t == Strip(LStripSet(Strip(text), LeadingDashes))
    IN  /\ ~KundeConnectorMatch(t).found
        /\ ~KundeLooseMatch(t).found
        /\ ~FindMatch(t).found
        /\ EarliestConnector(t, Lower(t)) = Len(t)
        /\ ~CapitalizedMatch(t).found
        /\ \E i \in 1..Len(t) : CharAt(t, i) \in NameStartChars

\* C11: the name extract_customer_name returns begins with no dash or bullet
\* and ends with no space and none of ? ! . : , ; whatever branch produced it;
\* for a text of plain words with no pattern and no capitalized word it is not
\* empty.
C11_NameIsClean ==
    pc = "extract_returned" =>
        /\ CharAt(search_term, 1) \notin {"-", EnDash, EmDash}
        /\ CharAt(search_term, Len(search_term)) \notin TrailingPunctuation
        /\ PlainText(user_text) => search_term # ""

\* page n of entry f of the directory gives text to index: f is a PDF that
\* opens, and the page's extracted text is not empty once stripped
Usable(f, n) ==
    /\ EndsWith(Lower(f.name), ".pdf")
    /\ f.opens
    /\ n \in 1..Len(f.pages)
    /\ ~f.pages[n].raises
    /\ Strip(OrEmpty(f.pages[n].text)) # ""

\* the positions of the chunk list that carry source and page
ChunksOf(source, page) ==
    {k \in 1..Len(all_metadatas) :
        all_metadatas[k].source = source /\ all_metadatas[k].page = page}

\* C12: once the page texts are split, the chunk and metadata lists are equally
\* long; each chunk is, by its source, 1-based page and chunk index, a chunk of
\* the text of one usable page; the indices of a page run 0, 1, 2, ... in
\* order; a usable page that fits in one chunk gives exactly that one chunk
\* with index 0; empty, blank and failed pages and files that do not open give
\* no chunk and no metadata.
C12_ChunkProvenance ==
    (InCalls("split_texts") /\ exc # OverlapError) =>
        /\ Len(all_chunks) = Len(all_metadatas)
        /\ \A k \in 1..Len(all_metadatas) :
            LET m == all_metadatas[k]
            IN  /\ \E i \in 1..Len(data_dir.files) :
                    LET f == data_dir.files[i]
                    IN  /\ f.name = m.source
                        /\ Usable(f, m.page)
                        /\ LET chunks == split_text(Strip(f.pages[m.page].text),
                                                    chunk_size, chunk_overlap)
                           IN  /\ m.chunk \in 0..(Len(chunks) - 1)
                               /\ all_chunks[k] = chunks[m.chunk + 1]
                /\ IF m.chunk = 0
                   THEN k > 1 => <<all_metadatas[k - 1].source, all_metadatas[k - 1].page>>
                                    # <<m.source, m.page>>
                   ELSE k > 1 /\ all_metadatas[k - 1] = [m EXCEPT !.chunk = m.chunk - 1]
        /\ \A i \in 1..Len(data_dir.files) :
            LET f == data_dir.files[i]
            IN  /\ ~f.opens => \A k \in 1..Len(all_metadatas) : all_metadatas[k].source # f.name
                /\ \A n \in 1..Len(f.pages) :
                    IF Usable(f, n)
                    THEN LET text == Strip(f.pages[n].text)
                         IN  /\ Cardinality(ChunksOf(f.name, n))
                                    = Len(split_text(text, chunk_size, chunk_overlap))
                             /\ ChunksOf(f.name, n) # {}
                             /\ Len(text) <= chunk_size =>
                                    \E k \in 1..Len(all_chunks) :
                                        /\ ChunksOf(f.name, n) = {k}
                                        /\ all_chunks[k] = text
                                        /\ all_metadatas[k].chunk = 0
                    ELSE ChunksOf(f.name, n) = {}

\* a run indexed a document with a failed page, two chunks of one page and a
\* page that fits in one chunk
C12_Witness ==
    /\ pc = "main_done"
    /\ \E i \in 1..Len(data_dir.files), n \in 1..MaxPages :
        /\ n <= Len(data_dir.files[i].pages)
        /\ data_dir.files[i].pages[n].raises
        /\ data_dir.files[i].opens
    /\ \E k \in 1..Len(all_metadatas) : all_metadatas[k].chunk = 1
    /\ \E k \in 1..Len(all_metadatas) :
        /\ all_metadatas[k].page > 1
        /\ Cardinality(ChunksOf(all_metadatas[k].source, all_metadatas[k].page)) = 1
    /\ Len(db.entries) = Len(all_chunks)

\* C13: the build starts on no index at all, an index found by the run having
\* been deleted just before; after a run that completes the index holds exactly
\* the chunks of that run with their metadatas; the deletion comes only after a
\* page text was loaded and the embedding client was created, and a run that
\* has not come to the deletion, as one that found no usable text, leaves the
\* index as it found it.
C13_RebuildReplacesIndex ==
    /\ pc = "from_texts" => db = NoIndex
    /\ \A k \in 1..Len(calls) :
        (calls[k] = "Chroma.from_texts" /\ db_before.exists)
            => calls[k - 1] = "shutil.rmtree"
    /\ pc = "main_done" =>
            /\ db.exists /\ db.intact
            /\ Len(db.entries) = Len(all_chunks)
            /\ \A k \in 1..Len(db.entries) :
                    db.entries[k] = [text |-> all_chunks[k], metadata |-> all_metadatas[k]]
    /\ InCalls("shutil.rmtree") => (raw.texts # <<>> /\ embeddings /\ db_before.exists)
    /\ (InCalls("load_pdf_texts") /\ raw.texts = <<>>) =>
            /\ pc \in {"main_returned", "main_raised"}
            /\ db = db_before
    /\ ~InCalls("shutil.rmtree") /\ ~InCalls("Chroma.from_texts") => db = db_before

\* a run that found an index completed, and the index holds its chunks only
C13_Witness ==
    /\ pc = "main_done"
    /\ db_before = OldIndex
    /\ InCalls("shutil.rmtree")
    /\ Len(db.entries) >= 2
    /\ \A k \in 1..Len(db.entries) : db.entries[k].metadata.source # "old.pdf"

\* how many times f was called
Count(f) == Cardinality({k \in 1..Len(calls) : calls[k] = f})

\* the calls that reach the CRM
CrmCalls == {"_call_monday", "get_all_items", "search_items_by_text",
             "extract_customer_name", "requests.post", "build_monday_answer"}

\* C14: a message classified as a general question leads to no CRM call and to
\* at most one query of the retriever; once build_rag_answer has run, the
\* retriever was queried once if it is loaded and not at all otherwise, the
\* model was invoked exactly once, and its prompt holds the question and, as
\* context, the first 5 at most of the returned chunks, in the order returned,
\* joined by the separator.
C14_QaPipeline ==
    branch = "qa" =>
        /\ \A k \in 1..Len(calls) : calls[k] \notin CrmCalls
        /\ crm = "none"
        /\ Count("retriever.invoke") <= 1
        /\ Count("llm.invoke") <= 1
        /\ InCalls("build_rag_answer") =>
            LET n == IF Len(docs) < 5 THEN Len(docs) ELSE 5
            IN  /\ Count("retriever.invoke") = (IF retriever THEN 1 ELSE 0)
                /\ Count("llm.invoke") = 1
                /\ llm # "none"
                /\ prompt.template = "rag"
                /\ prompt.user_text = strip_bot_mention(event.text)
                /\ prompt.context = JoinWith([k \in 1..n |-> docs[k]], "\n\n---\n\n")
                /\ retrieval = "raised" => docs = <<>>

\* a general question was answered from more chunks than the cap keeps
C14_Witness ==
    /\ pc = "done"
    /\ branch = "qa"
    /\ Len(docs) > 5
    /\ Contains(prompt.context, docs[5])
    /\ ~Contains(prompt.context, docs[6])
    /\ llm = "ok"
    /\ Len(posts) = 2
    /\ LastPost = reply

\* the CRM fetch of the lookup has returned a list to the handler
FetchReturned ==
    /\ strategy \in {"AllRecords", "SearchByName"}
    /\ pc \notin {"get_all_items", "search_items_by_text"}
    /\ caught \in {"", PostError}

\* C15: in a CRM lookup the model is invoked at most once, and only by
\* build_monday_answer on the non-empty list the fetch returned; when the list
\* fetched or filtered is empty the reply is the fixed "no match" text and
\* build_monday_answer is not called; a health check never invokes the model.
C15_LlmOnlyOnRecords ==
    /\ branch = "crm" =>
        /\ Count("llm.invoke") <= 1
        /\ Count("build_monday_answer") <= 1
        /\ ~InCalls("build_rag_answer")
        /\ (pc = "build_monday_answer" \/ InCalls("build_monday_answer")) =>
                /\ items # <<>>
                /\ crm = "ok"
        /\ InCalls("llm.invoke") =>
                /\ InCalls("build_monday_answer")
                /\ prompt.data = Structured(items)
                /\ prompt.data # <<>>
        /\ (FetchReturned /\ items = <<>>) =>
                /\ reply = NO_MATCH
                /\ llm = "none"
                /\ ~InCalls("build_monday_answer")
                /\ ~InCalls("llm.invoke")
                /\ (pc = "done" /\ caught = "") => LastPost = NO_MATCH
        /\ (FetchReturned /\ items # <<>> /\ pc \in {"post_reply", "except", "done"}) =>
                Count("llm.invoke") = 1
    /\ branch = "health" =>
        /\ llm = "none"
        /\ ~InCalls("llm.invoke")
        /\ ~InCalls("build_monday_answer")
        /\ ~InCalls("build_rag_answer")

\* records were fetched, none matched the name, and "no match" was the reply
C15_Witness ==
    /\ pc = "done"
    /\ branch = "crm"
    /\ strategy = "SearchByName"
    /\ fetched # <<>>
    /\ items = <<>>
    /\ llm = "none"
    /\ Len(posts) = 2
    /\ LastPost = NO_MATCH

====
